---------------------------- MODULE Spec2Model ----------------------------
(* A model of SymmetricArray.py: the NxN container SymmetricArray and the   *)
(* NxNxN container SymmetricArray3d.  A session holds one SymmetricArray    *)
(* bound to the name a, tries to bind a SymmetricArray3d to the name b,     *)
(* and calls the methods of both.  Every call is one step; a call that      *)
(* raises leaves the exception's type in last.exc.                          *)
EXTENDS Integers, Sequences, FiniteSets, TLC

\* Largest dimension N of a container of the session.
MaxN == 2
\* Element values are 0..MaxVal.
MaxVal == 1

Val == 0..MaxVal

VARIABLES
    a,      \* the SymmetricArray instance: unique, shape, values, sm1
    b,      \* the binding of the name b (a SymmetricArray3d, once constructed)
    x,      \* the name x, bound by the statement x = a.full()
    last    \* the last call: its name, value argument, exception and result

vars == <<a, b, x, last>>

----------------------------------------------------------------------------
(* Python values.  A list or an ndarray of length n is a function on        *)
(* 0..n-1.  A returned value is tagged with its kind.                        *)

Min(p, q) == IF p <= q THEN p ELSE q
Max(p, q) == IF p >= q THEN p ELSE q

PyLen(s) == Cardinality(DOMAIN s)

\* s[idx] of a list or ndarray: an index in [-len, len) is accepted, a
\* negative one counts from the end; any other raises IndexError.
IndexInRange(s, idx) == idx >= -PyLen(s) /\ idx < PyLen(s)
IndexWrap(s, idx) == IF idx < 0 THEN idx + PyLen(s) ELSE idx

\* xrange(lo, hi) as the sequence of the values it yields.
xrange(lo, hi) == [p \in 1..Max(hi - lo, 0) |-> lo + p - 1]

NoneValue == [kind |-> "None", num |-> 0, arr |-> <<>>]
Scalar(n) == [kind |-> "scalar", num |-> n, arr |-> <<>>]
Array(m) == [kind |-> "ndarray", num |-> 0, arr |-> m]

\* The outcome of a call on self: the exception raised ("None" when the
\* call returns), the object afterwards and the value returned.
Return(self, ret) == [exc |-> "None", self |-> self, ret |-> ret]
Raise(self, e) == [exc |-> e, self |-> self, ret |-> NoneValue]

\* The keys of a subscript a[keys]: a bare integer n, or a tuple.
BareInt(n) == [isint |-> TRUE, seq |-> <<n>>]
Tuple(s) == [isint |-> FALSE, seq |-> s]

\* fill_function(shape, *args): a block of the shape filled with c
\* (numpy.zeros for c = 0, numpy.full(shape, c) otherwise).
fill_function(n, c) == [p \in 0..(n - 1) |-> c]
fill_function2(rows, cols, c) == [r \in 0..(rows - 1) |-> [k \in 0..(cols - 1) |-> c]]

----------------------------------------------------------------------------
(* class SymmetricArray                                                      *)

dunder_init(N, c) ==
    [unique |-> (N * N + N) \div 2,
     shape  |-> N,
     values |-> [i \in 0..(N - 1) |-> fill_function(N - i, c)],
     sm1    |-> N - 1]

\* self.values[mink][maxk-mink], as the list and the ndarray index it.
SlotExists(self, mink, off) ==
    /\ IndexInRange(self.values, mink)
    /\ IndexInRange(self.values[IndexWrap(self.values, mink)], off)

SlotSeg(self, mink) == IndexWrap(self.values, mink)
\* A variant of SlotOff that drops the offset: every pair of a segment
\* lands on the segment's first element.
SlotOff_first(self, mink, off) == 0

SlotOff(self, mink, off) == IndexWrap(self.values[SlotSeg(self, mink)], off)

getitem(self, keya, keyb) ==
    IF keya > self.sm1 THEN Raise(self, "IndexError")
    ELSE IF keyb > self.sm1 THEN Raise(self, "IndexError")
    ELSE LET mink == Min(keya, keyb)
             maxk == Max(keya, keyb)
         IN  IF ~SlotExists(self, mink, maxk - mink)
             THEN Raise(self, "IndexError")
             ELSE Return(self,
                    Scalar(self.values[SlotSeg(self, mink)][SlotOff(self, mink, maxk - mink)]))

\* A variant of setitem that does not order its keys: it writes
\* self.values[keya][keyb-keya].
setitem_unordered(self, keya, keyb, value) ==
    IF keya > self.sm1 THEN Raise(self, "IndexError")
    ELSE IF keyb > self.sm1 THEN Raise(self, "IndexError")
    ELSE IF ~SlotExists(self, keya, keyb - keya) THEN Raise(self, "IndexError")
    ELSE LET seg == SlotSeg(self, keya)
             off == SlotOff(self, keya, keyb - keya)
         IN  Return([self EXCEPT !.values[seg][off] = value], NoneValue)

\* A variant of setitem that also rejects a key below 0.
setitem_checked(self, keya, keyb, value) ==
    IF keya > self.sm1 \/ keya < 0 THEN Raise(self, "IndexError")
    ELSE IF keyb > self.sm1 \/ keyb < 0 THEN Raise(self, "IndexError")
    ELSE LET mink == Min(keya, keyb)
             maxk == Max(keya, keyb)
         IN  Return([self EXCEPT !.values[mink][maxk - mink] = value], NoneValue)

setitem(self, keya, keyb, value) ==
    IF keya > self.sm1 THEN Raise(self, "IndexError")
    ELSE IF keyb > self.sm1 THEN Raise(self, "IndexError")
    ELSE LET mink == Min(keya, keyb)
             maxk == Max(keya, keyb)
         IN  IF ~SlotExists(self, mink, maxk - mink)
             THEN Raise(self, "IndexError")
             ELSE LET seg == SlotSeg(self, mink)
                      off == SlotOff(self, mink, maxk - mink)
                  IN  Return([self EXCEPT !.values[seg][off] = value], NoneValue)

dunder_getitem(self, keys) ==
    IF keys.isint THEN Raise(self, "IndexError")
    ELSE IF Len(keys.seq) # 2 THEN Raise(self, "IndexError")
    ELSE IF \E p \in 1..Len(keys.seq) : keys.seq[p] > self.sm1
         THEN Raise(self, "IndexError")
    ELSE getitem(self, keys.seq[1], keys.seq[2])

dunder_setitem(self, keys, value) ==
    IF keys.isint THEN Raise(self, "IndexError")
    ELSE IF Len(keys.seq) # 2 THEN Raise(self, "IndexError")
    ELSE IF \E p \in 1..Len(keys.seq) : keys.seq[p] > self.sm1
         THEN Raise(self, "IndexError")
    ELSE setitem(self, keys.seq[1], keys.seq[2], value)

\* The pairs (i, j) the loops of __iadd__ and full visit, in order:
\* for i in xrange(shape-1): for j in xrange(i+1, shape).
RECURSIVE loop_rows(_, _)
loop_rows(is, shape) ==
    IF is = <<>> THEN <<>>
    ELSE LET i  == Head(is)
             js == xrange(i + 1, shape)
         IN  [p \in 1..Len(js) |-> <<i, js[p]>>] \o loop_rows(Tail(is), shape)

\* A variant of loop_pairs whose inner loop starts at i, not i+1.
RECURSIVE loop_rows_diag(_, _)
loop_rows_diag(is, shape) ==
    IF is = <<>> THEN <<>>
    ELSE LET i  == Head(is)
             js == xrange(i, shape)
         IN  [p \in 1..Len(js) |-> <<i, js[p]>>] \o loop_rows_diag(Tail(is), shape)

loop_pairs_diag(self) == loop_rows_diag(xrange(0, self.shape - 1), self.shape)

loop_pairs(self) == loop_rows(xrange(0, self.shape - 1), self.shape)

RECURSIVE iadd_loop(_, _, _)
iadd_loop(self, pairs, value) ==
    IF pairs = <<>> THEN Return(self, NoneValue)
    ELSE LET r == dunder_setitem(self, Tuple(Head(pairs)), value)
         IN  IF r.exc # "None" THEN r
             ELSE iadd_loop(r.self, Tail(pairs), value)

dunder_iadd(self, value) == iadd_loop(self, loop_pairs(self), value)

RECURSIVE full_loop(_, _, _)
full_loop(self, pairs, outarr) ==
    IF pairs = <<>> THEN Return(self, Array(outarr))
    ELSE LET i == Head(pairs)[1]
             j == Head(pairs)[2]
             r == dunder_getitem(self, Tuple(Head(pairs)))
         IN  IF r.exc # "None" THEN r
             ELSE full_loop(r.self, Tail(pairs),
                    [outarr EXCEPT ![i][j] = r.ret.num, ![j][i] = r.ret.num])

\* A variant of full that copies a[i, j] to outarr[i][j] only, without the
\* mirrored outarr[j][i].
RECURSIVE full_loop_upper(_, _, _)
full_loop_upper(self, pairs, outarr) ==
    IF pairs = <<>> THEN Return(self, Array(outarr))
    ELSE LET i == Head(pairs)[1]
             j == Head(pairs)[2]
             r == dunder_getitem(self, Tuple(Head(pairs)))
         IN  IF r.exc # "None" THEN r
             ELSE full_loop_upper(r.self, Tail(pairs), [outarr EXCEPT ![i][j] = r.ret.num])

full_upper(self) ==
    full_loop_upper(self, loop_pairs(self), fill_function2(self.shape, self.shape, 0))

full(self) ==
    full_loop(self, loop_pairs(self), fill_function2(self.shape, self.shape, 0))

dunder_len(self) == Return(self, Scalar(self.unique))

----------------------------------------------------------------------------
(* class SymmetricArray3d                                                    *)

\* The names __init__ can read: its parameters (self, N, fill_function,
\* *args, **kwarg), the module's globals and the builtins it uses.
init3d_locals == {"self", "N", "fill_function", "args", "kwarg"}
module_globals == {"np", "sys", "SymmetricArray", "SymmetricArray3d"}
builtins == {"xrange", "min", "max", "len", "str", "isinstance", "int", "IndexError"}

NameDefined(scope, name) == name \in (scope \cup module_globals \cup builtins)

\* The object __init__ has built when every segment is appended.
object3d(N, c) ==
    [unique |-> ((N * N + N) \div 2) * N,
     shape  |-> N,
     values |-> [i \in 0..(N - 1) |-> fill_function2(N - i, N, c)],
     sm1    |-> N - 1]

\* The object before __init__ has run: what the name b holds while unbound.
NoObject == [unique |-> 0, shape |-> 0, values |-> <<>>, sm1 |-> -1]

\* __init__: the first pass of "for i in xrange(N)" evaluates
\* fill_func((N-i, N), *args, **kwargs): the callee first, then the
\* arguments.  With no pass, self.values[0] indexes the empty list.
dunder_init3d(N, c) ==
    IF xrange(0, N) = <<>> THEN Raise(NoObject, "IndexError")
    ELSE IF ~NameDefined(init3d_locals, "fill_func") THEN Raise(NoObject, "NameError")
    ELSE IF ~NameDefined(init3d_locals, "kwargs") THEN Raise(NoObject, "NameError")
    ELSE Return(object3d(N, c), NoneValue)

Slot3dExists(self, mink, off, keyc) ==
    /\ IndexInRange(self.values, mink)
    /\ IndexInRange(self.values[IndexWrap(self.values, mink)], off)
    /\ LET block == self.values[IndexWrap(self.values, mink)]
       IN  IndexInRange(block[IndexWrap(block, off)], keyc)

getitem3d(self, keya, keyb, keyc) ==
    IF keya > self.sm1 THEN Raise(self, "IndexError")
    ELSE IF keyb > self.sm1 THEN Raise(self, "IndexError")
    ELSE IF keyc > self.sm1 THEN Raise(self, "IndexError")
    ELSE LET mink == Min(keya, keyb)
             maxk == Max(keya, keyb)
         IN  IF ~Slot3dExists(self, mink, maxk - mink, keyc)
             THEN Raise(self, "IndexError")
             ELSE LET seg == IndexWrap(self.values, mink)
                      row == IndexWrap(self.values[seg], maxk - mink)
                      col == IndexWrap(self.values[seg][row], keyc)
                  IN  Return(self, Scalar(self.values[seg][row][col]))

setitem3d(self, keya, keyb, keyc, value) ==
    IF keya > self.sm1 THEN Raise(self, "IndexError")
    ELSE IF keyb > self.sm1 THEN Raise(self, "IndexError")
    ELSE IF keyc > self.sm1 THEN Raise(self, "IndexError")
    ELSE LET mink == Min(keya, keyb)
             maxk == Max(keya, keyb)
         IN  IF ~Slot3dExists(self, mink, maxk - mink, keyc)
             THEN Raise(self, "IndexError")
             ELSE LET seg == IndexWrap(self.values, mink)
                      row == IndexWrap(self.values[seg], maxk - mink)
                      col == IndexWrap(self.values[seg][row], keyc)
                  IN  Return([self EXCEPT !.values[seg][row][col] = value], NoneValue)

dunder_getitem3d(self, keys) ==
    IF keys.isint THEN Raise(self, "IndexError")
    ELSE IF Len(keys.seq) # 3 THEN Raise(self, "IndexError")
    ELSE IF \E p \in 1..Len(keys.seq) : keys.seq[p] > self.sm1
         THEN Raise(self, "IndexError")
    ELSE getitem3d(self, keys.seq[1], keys.seq[2], keys.seq[3])

dunder_setitem3d(self, keys, value) ==
    IF keys.isint THEN Raise(self, "IndexError")
    ELSE IF Len(keys.seq) # 3 THEN Raise(self, "IndexError")
    ELSE IF \E p \in 1..Len(keys.seq) : keys.seq[p] > self.sm1
         THEN Raise(self, "IndexError")
    ELSE setitem3d(self, keys.seq[1], keys.seq[2], keys.seq[3], value)

dunder_len3d(self) == Return(self, Scalar(self.unique))

----------------------------------------------------------------------------
(* The session.                                                              *)

\* Coordinates the session passes to a container of dimension N: the valid
\* ones, N itself, and the negative ones down to -N-1.
Coords(N) == (-N - 1)..N

Keys2d(N) ==
    {Tuple(<<p, q>>) : p \in Coords(N), q \in Coords(N)}
    \cup {BareInt(p) : p \in {0, N}}
    \cup {Tuple(<<p>>) : p \in {0, N}}
    \cup {Tuple(<<p, p, q>>) : p \in {0, N}, q \in {0, N}}
    \cup {Tuple(<<>>)}

\* The name b is never bound to a container of a known dimension, so the
\* session draws the keys of b[keys] from the smallest coordinates.
Keys3d ==
    {Tuple(<<p, q, r>>) : p \in 0..1, q \in 0..1, r \in 0..1}
    \cup {BareInt(0), Tuple(<<0, 1>>)}

ValidKeys(N) == {Tuple(<<p, q>>) : p \in 0..(N - 1), q \in 0..(N - 1)}

HasNegative(keys) == \E p \in 1..Len(keys.seq) : keys.seq[p] < 0

\* The record of a call: value is the value argument of a call that
\* returned (0 when it has none), neg tells whether a coordinate of its
\* keys was negative.
Call(op, value, r, neg) ==
    [op |-> op, value |-> IF r.exc = "None" THEN value ELSE 0,
     exc |-> r.exc, ret |-> r.ret, neg |-> neg]

\* A statement that uses the name b: NameError while b is unbound.  b.N is
\* the dimension the last SymmetricArray3d(N) asked for.
OnB(r) == IF b.bound THEN r ELSE Raise(b.obj, "NameError")

\* a = SymmetricArray(N, fill_function, c)
Init ==
    /\ \E N \in 1..MaxN, c \in Val : a = dunder_init(N, c)
    /\ b = [tried |-> FALSE, bound |-> FALSE, N |-> 0, obj |-> NoObject]
    /\ x = NoneValue
    /\ last = Call("SymmetricArray", 0, Return(a, NoneValue), FALSE)

\* a[keys] = value
SetItem(keys, value) ==
    LET r == dunder_setitem(a, keys, value)
    IN  /\ a' = r.self
        /\ last' = Call("setitem", value, r, HasNegative(keys))
        /\ UNCHANGED <<b, x>>

\* a[keys]
GetItem(keys) ==
    LET r == dunder_getitem(a, keys)
    IN  /\ a' = r.self
        /\ last' = Call("getitem", 0, r, HasNegative(keys))
        /\ UNCHANGED <<b, x>>

\* a.__iadd__(value)
IAdd(value) ==
    LET r == dunder_iadd(a, value)
    IN  /\ a' = r.self
        /\ last' = Call("iadd", value, r, FALSE)
        /\ UNCHANGED <<b, x>>

\* a.full()
Full ==
    LET r == full(a)
    IN  /\ a' = r.self
        /\ last' = Call("full", 0, r, FALSE)
        /\ UNCHANGED <<b, x>>

\* x = a.full()
FullAssign ==
    LET r == full(a)
    IN  /\ a' = r.self
        /\ x' = IF r.exc = "None" THEN r.ret ELSE x
        /\ last' = Call("full", 0, r, FALSE)
        /\ UNCHANGED b

\* len(a)
Length ==
    LET r == dunder_len(a)
    IN  /\ a' = r.self
        /\ last' = Call("len", 0, r, FALSE)
        /\ UNCHANGED <<b, x>>

\* b = SymmetricArray3d(N, fill_function, c)
New3d(N, c) ==
    LET r == dunder_init3d(N, c)
    IN  /\ b' = IF r.exc = "None"
                THEN [tried |-> TRUE, bound |-> TRUE, N |-> N, obj |-> r.self]
                ELSE [b EXCEPT !.tried = TRUE, !.N = N]
        /\ last' = Call("SymmetricArray3d", 0, r, FALSE)
        /\ UNCHANGED <<a, x>>

\* b[keys] = value
SetItem3d(keys, value) ==
    /\ b.tried
    /\ LET r == OnB(dunder_setitem3d(b.obj, keys, value))
       IN  /\ b' = [b EXCEPT !.obj = r.self]
           /\ last' = Call("setitem3d", value, r, FALSE)
    /\ UNCHANGED <<a, x>>

\* b[keys]
GetItem3d(keys) ==
    /\ b.tried
    /\ LET r == OnB(dunder_getitem3d(b.obj, keys))
       IN  /\ b' = [b EXCEPT !.obj = r.self]
           /\ last' = Call("getitem3d", 0, r, FALSE)
    /\ UNCHANGED <<a, x>>

\* len(b)
Length3d ==
    /\ b.tried
    /\ LET r == OnB(dunder_len3d(b.obj))
       IN  /\ b' = [b EXCEPT !.obj = r.self]
           /\ last' = Call("len3d", 0, r, FALSE)
    /\ UNCHANGED <<a, x>>

\* A session on the container a.
Next2d ==
    \/ \E keys \in Keys2d(a.shape), value \in Val : SetItem(keys, value)
    \/ \E keys \in Keys2d(a.shape) : GetItem(keys)
    \/ \E value \in Val : IAdd(value)
    \/ Full
    \/ Length

Spec2d == Init /\ [][Next2d]_vars

\* A session on the name b.
Next3d ==
    \/ \E N \in 1..MaxN, c \in Val : New3d(N, c)
    \/ \E keys \in Keys3d, value \in Val : SetItem3d(keys, value)
    \/ \E keys \in Keys3d : GetItem3d(keys)
    \/ Length3d

\* A session that calls every method of both containers.
Next == Next2d \/ Next3d

Spec == Init /\ [][Next]_vars

\* A session that keeps the result of a.full() in x while it goes on
\* writing the container.
NextFull ==
    \/ \E keys \in ValidKeys(a.shape), value \in Val : SetItem(keys, value)
    \/ \E keys \in ValidKeys(a.shape) : GetItem(keys)
    \/ \E value \in Val : IAdd(value)
    \/ FullAssign

SpecFull == Init /\ [][NextFull]_vars

----------------------------------------------------------------------------
(* The claims.                                                               *)

Valid == 0..(a.shape - 1)

\* self[i, j] and self[i, j] = v, as a caller writes them.
get(self, i, j) == dunder_getitem(self, Tuple(<<i, j>>))
set(self, i, j, v) == dunder_setitem(self, Tuple(<<i, j>>), v)

\* The physical slot (segment, offset) that getitem and setitem reach for
\* valid keys (i, j).
slot(self, i, j) ==
    <<SlotSeg(self, Min(i, j)), SlotOff(self, Min(i, j), Max(i, j) - Min(i, j))>>

\* Every stored slot of the container.
slots(self) ==
    UNION {{<<s, o>> : o \in DOMAIN self.values[s]} : s \in DOMAIN self.values}

\* C1: in every state a session reaches, a[p, q] and a[q, p] return the
\* same value for all valid p, q, and for all valid i, j and every v the
\* write a[i, j] = v returns and leaves both a[i, j] and a[j, i] equal to v.
C1_Symmetry ==
    /\ \A p \in Valid, q \in Valid :
          /\ get(a, p, q).exc = "None"
          /\ get(a, p, q).ret = get(a, q, p).ret
    /\ \A i \in Valid, j \in Valid, v \in Val :
          LET r == set(a, i, j, v)
          IN  /\ r.exc = "None"
              /\ get(r.self, i, j).ret = Scalar(v)
              /\ get(r.self, j, i).ret = Scalar(v)

\* C1's case: a write a[1, 0] = 1 into a zero-filled container has
\* returned, and a[0, 1] reads 1.
C1_Witness ==
    /\ last.op = "setitem" /\ last.exc = "None" /\ ~last.neg /\ last.value = 1
    /\ a.shape >= 2
    /\ get(a, 0, 1).ret = Scalar(1) /\ get(a, 1, 0).ret = Scalar(1)
    /\ get(a, 0, 0).ret = Scalar(0) /\ get(a, 1, 1).ret = Scalar(0)

\* C9: for all valid i, j the write a[i, j] = v returns, its offset
\* max-min lies inside segment min, and afterwards a[p, q] reads v when
\* {p, q} = {i, j} and reads its old value for every other pair; the map
\* from unordered pairs to slots is one-to-one and onto the N(N+1)/2 slots.
C9_Footprint ==
    LET old == [pq \in Valid \X Valid |-> get(a, pq[1], pq[2]).ret]
    IN  /\ \A i \in Valid, j \in Valid :
              /\ Max(i, j) - Min(i, j) \in 0..(a.shape - Min(i, j) - 1)
              /\ PyLen(a.values[Min(i, j)]) = a.shape - Min(i, j)
              /\ slot(a, i, j) \in slots(a)
              /\ \A v \in Val :
                    LET r == set(a, i, j, v)
                    IN  /\ r.exc = "None"
                        /\ \A p \in Valid, q \in Valid :
                              get(r.self, p, q).ret =
                                 IF {p, q} = {i, j} THEN Scalar(v) ELSE old[<<p, q>>]
        /\ \A i \in Valid, j \in Valid, p \in Valid, q \in Valid :
              slot(a, i, j) = slot(a, p, q) <=> {i, j} = {p, q}
        /\ {slot(a, i, j) : i \in Valid, j \in Valid} = slots(a)
        /\ Cardinality(slots(a)) = (a.shape * (a.shape + 1)) \div 2

\* C9's case: in a container of dimension 2 or more a write has changed
\* one slot off the diagonal and no other: a[0, 1] differs from the rest.
C9_Witness ==
    /\ last.op = "setitem" /\ last.exc = "None" /\ ~last.neg
    /\ a.shape >= 2
    /\ get(a, 0, 1).ret = Scalar(last.value)
    /\ \A p \in Valid, q \in Valid :
          {p, q} # {0, 1} => get(a, p, q).ret # Scalar(last.value)

C10_NegativeCoordinates ==
    LET N == a.shape
        Wrapped == (-N)..(-1)
        Below == {-N - 1, -N - 2}
    IN  /\ \A p \in Wrapped, q \in Wrapped :
              /\ get(a, p, q) = get(a, N + p, N + q)
              /\ get(a, p, q).exc = "None"
              /\ \A v \in Val :
                    LET r == set(a, p, q, v)
                    IN  r = set(a, N + p, N + q, v) /\ r.exc = "None"
        /\ \A p \in Coords(N) \cup Below, q \in Coords(N) \cup Below :
              (\/ (p < 0 /\ q \in Valid)
               \/ (q < 0 /\ p \in Valid)
               \/ p < -N
               \/ q < -N)
              => /\ get(a, p, q).exc = "IndexError"
                 /\ \A v \in Val :
                       LET r == set(a, p, q, v)
                       IN  r.exc = "IndexError" /\ r.self = a

\* C10's case: a write with negative coordinates has returned and changed
\* the last diagonal slot, that of the pair (N-1, N-1), and only it.
C10_Witness ==
    /\ last.op = "setitem" /\ last.neg /\ last.exc = "None"
    /\ \A p \in Valid, q \in Valid :
          get(a, p, q).ret = Scalar(last.value) <=> (p = a.shape - 1 /\ q = p)

\* C10's other case: a write with a negative coordinate has raised.
C10_WitnessRaised ==
    /\ last.op = "setitem" /\ last.neg /\ last.exc = "IndexError"
    /\ \E p \in Valid, q \in Valid : get(a, p, q).ret # get(a, 0, 0).ret

\* C6, the result: a.full() returns, leaving the container as it was, an
\* N x N array d with d[i][j] = d[j][i] = a[i, j] for i # j and d[i][i] = 0.
C6_Result ==
    LET r == full(a)
    IN  /\ r.exc = "None"
        /\ r.self = a
        /\ r.ret.kind = "ndarray"
        /\ DOMAIN r.ret.arr = Valid
        /\ \A i \in Valid :
              /\ DOMAIN r.ret.arr[i] = Valid
              /\ \A j \in Valid :
                    /\ r.ret.arr[i][j] = r.ret.arr[j][i]
                    /\ r.ret.arr[i][j] = IF i = j THEN 0 ELSE get(a, i, j).ret.num

get3d(obj, i, j, k) == OnB(dunder_getitem3d(obj, Tuple(<<i, j, k>>)))
set3d(obj, i, j, k, v) == OnB(dunder_setitem3d(obj, Tuple(<<i, j, k>>), v))

\* C3: a.__iadd__(v) returns and leaves every a[i, j] with i < j at its
\* value before the call plus v.
C3_Adds ==
    [][last'.op = "iadd" =>
          /\ last'.exc = "None"
          /\ \A i \in Valid, j \in Valid :
                i < j => get(a', i, j).ret = Scalar(get(a, i, j).ret.num + last'.value)]_vars

\* C8: b = SymmetricArray3d(N) with N >= 1 returns and binds b to a
\* container of N segments, segment i a block of shape (N-i, N), on which
\* b[i, j, k] = v followed by b[j, i, k] reads v.
C8_Construction ==
    last.op = "SymmetricArray3d" =>
       /\ last.exc = "None"
       /\ b.bound
       /\ DOMAIN b.obj.values = 0..(b.N - 1)
       /\ \A i \in 0..(b.N - 1) :
             /\ DOMAIN b.obj.values[i] = 0..(b.N - i - 1)
             /\ \A row \in 0..(b.N - i - 1) : DOMAIN b.obj.values[i][row] = 0..(b.N - 1)
       /\ \A i \in 0..(b.N - 1), j \in 0..(b.N - 1), k \in 0..(b.N - 1), v \in Val :
             get3d(set3d(b.obj, i, j, k, v).self, j, i, k).ret = Scalar(v)

\* C2: on the container b of dimension N, for all i, j, k in [0, N) the
\* write b[i, j, k] = v returns, b[i, j, k] and b[j, i, k] then read v,
\* and b[i, j, k2] reads its old value for every k2 # k.
C2_Symmetry3d ==
    b.tried =>
       \A i \in 0..(b.N - 1), j \in 0..(b.N - 1), k \in 0..(b.N - 1), v \in Val :
          LET r == set3d(b.obj, i, j, k, v)
          IN  /\ r.exc = "None"
              /\ get3d(r.self, i, j, k).ret = Scalar(v)
              /\ get3d(r.self, j, i, k).ret = Scalar(v)
              /\ \A k2 \in 0..(b.N - 1) :
                    k2 # k => /\ get3d(r.self, i, j, k2).exc = "None"
                              /\ get3d(r.self, i, j, k2).ret = get3d(b.obj, i, j, k2).ret

\* Keys that break the contract of a container of dimension N and arity n:
\* a bare integer, a tuple of another length, a coordinate >= N.
BadKeys(N, n) ==
    LET All == {BareInt(p) : p \in 0..N}
               \cup {Tuple(<<p>>) : p \in 0..N}
               \cup {Tuple(<<p, q>>) : p \in 0..N, q \in 0..N}
               \cup {Tuple(<<p, q, r>>) : p \in 0..N, q \in 0..N, r \in 0..N}
    IN  {k \in All : \/ k.isint
                     \/ Len(k.seq) # n
                     \/ \E p \in 1..Len(k.seq) : k.seq[p] >= N}

\* C5, on the NxN container: a read or a write with keys that break the
\* contract raises IndexError, and the write leaves the container as it was.
C5_Validation2d ==
    \A keys \in BadKeys(a.shape, 2) :
       /\ dunder_getitem(a, keys).exc = "IndexError"
       /\ \A v \in Val :
             /\ dunder_setitem(a, keys, v).exc = "IndexError"
             /\ dunder_setitem(a, keys, v).self = a

\* C5: on both containers a read or a write with keys that break the
\* contract raises IndexError, and the write leaves the container as it was.
C5_Validation ==
    /\ C5_Validation2d
    /\ b.tried =>
          \A keys \in BadKeys(b.N, 3) :
             /\ OnB(dunder_getitem3d(b.obj, keys)).exc = "IndexError"
             /\ \A v \in Val :
                   /\ OnB(dunder_setitem3d(b.obj, keys, v)).exc = "IndexError"
                   /\ OnB(dunder_setitem3d(b.obj, keys, v)).self = b.obj

\* C7, on the NxN container: len(a) is N(N+1)/2, the number of stored
\* slots, in every state a session reaches.
C7_Cardinality2d ==
    /\ dunder_len(a).exc = "None"
    /\ dunder_len(a).ret = Scalar((a.shape * (a.shape + 1)) \div 2)
    /\ dunder_len(a).ret.num = Cardinality(slots(a))
    /\ last.op = "len" => last.ret = dunder_len(a).ret

\* C7: len(a) is N(N+1)/2 and len(b) is N(N+1)/2 * N, the number of
\* stored slots of each, in every state a session reaches.
C7_Cardinality ==
    /\ C7_Cardinality2d
    /\ b.tried =>
          /\ OnB(dunder_len3d(b.obj)).exc = "None"
          /\ OnB(dunder_len3d(b.obj)).ret = Scalar(((b.N * (b.N + 1)) \div 2) * b.N)
          /\ OnB(dunder_len3d(b.obj)).ret.num =
                Cardinality({<<s, row, k>> \in (0..(b.N - 1)) \X (0..(b.N - 1)) \X (0..(b.N - 1)) :
                               /\ s \in DOMAIN b.obj.values
                               /\ row \in DOMAIN b.obj.values[s]
                               /\ k \in DOMAIN b.obj.values[s][row]})

============================================================================
